---- MODULE Spec2Model ----
(***************************************************************************)
(* Model of app.py, the study-materials catalogue: a manifest document     *)
(* (Year -> Branch -> Subject -> Resource) kept in manifest.json, and a    *)
(* folder "static" of uploaded files.                                      *)
(*                                                                         *)
(* Text (names, titles, urls, file names, paths) is a sequence of          *)
(* one-character strings, so that strip(), splitext() and the f-strings    *)
(* of the source are computed rather than assumed.  A Python dict is a     *)
(* record; a dict without a key is a record without that field.            *)
(*                                                                         *)
(* One action is one run of the script for one user event: the script      *)
(* loads the manifest (line 91), runs the handler of the widget that       *)
(* fired, and saves.  The widgets themselves (Streamlit) are the source    *)
(* of the inputs and are not modelled further.                             *)
(***************************************************************************)
EXTENDS Integers, Sequences, FiniteSets, TLC

VARIABLES manifest, disk, files, clock, last, mem, pc, stored

vars == <<manifest, disk, files, clock, last, mem, pc, stored>>

\* ------------------------------------------------------------------ bounds

\* Number of accepted add-form submissions in one behaviour (the clock stops there).
MaxAdds == 2

\* ------------------------------------------------------------------ text

\* Python's None (dict.get of a missing key), kept apart from every text.
None == <<"<None>">>

Space == " "

STATIC_DIR == <<"s", "t", "a", "t", "i", "c">>

RECURSIVE LStrip(_)
LStrip(s) ==
    IF s # <<>> /\ Head(s) = Space THEN LStrip(Tail(s)) ELSE s

RECURSIVE RStrip(_)
RStrip(s) ==
    IF s # <<>> /\ s[Len(s)] = Space THEN RStrip(SubSeq(s, 1, Len(s) - 1)) ELSE s

\* str.strip()
Strip(s) == RStrip(LStrip(s))

\* a check that lets every text pass
Truthy_lax(s) == TRUE

\* Python truthiness of a str
Truthy(s) == s # <<>>

\* ------------------------------------------------------------------ lists

RemoveAt(s, k) == SubSeq(s, 1, k - 1) \o SubSeq(s, k + 1, Len(s))

\* list.index: the first position holding a value equal to x (0: none)
FirstEqual(s, x) ==
    IF \E k \in 1..Len(s) : s[k] = x
    THEN CHOOSE k \in 1..Len(s) : s[k] = x /\ \A m \in 1..(k - 1) : s[m] # x
    ELSE 0

\* a remove that drops the head of the list, whatever was asked for
ListRemove_head(s, x) == Tail(s)

\* list.remove(x): drops the first element that compares equal to x
ListRemove(s, x) == RemoveAt(s, FirstEqual(s, x))

\* a lookup that never finds the name
FindByName_never(s, n) == 0

\* the first position whose "name" is n (0: none): the for/if/return of find_or_create_*
FindByName(s, n) ==
    IF \E k \in 1..Len(s) : s[k].name = n
    THEN CHOOSE k \in 1..Len(s) : s[k].name = n /\ \A m \in 1..(k - 1) : s[m].name # n
    ELSE 0

\* ------------------------------------------------------------------ manifest store

Absent == [absent |-> TRUE]

EmptyManifest == [years |-> <<>>]

\* ensure_dirs(): writes the default document when there is none
ensure_dirs(d) == IF d = Absent THEN EmptyManifest ELSE d

\* load_manifest(): the document read, after ensure_dirs()
load_manifest(d) == ensure_dirs(d)

\* save_manifest(): the whole document replaces what is stored
save_manifest(m) == m

\* ------------------------------------------------------------------ find or create

find_or_create_year(m, year_name) ==
    LET k == FindByName(m.years, year_name) IN
    IF k # 0 THEN [obj |-> m, at |-> k]
    ELSE [obj |-> [m EXCEPT !.years = Append(@, [name |-> year_name, branches |-> <<>>])],
          at |-> Len(m.years) + 1]

find_or_create_branch(year_obj, branch_name) ==
    LET k == FindByName(year_obj.branches, branch_name) IN
    IF k # 0 THEN [obj |-> year_obj, at |-> k]
    ELSE [obj |-> [year_obj EXCEPT !.branches = Append(@, [name |-> branch_name, subjects |-> <<>>])],
          at |-> Len(year_obj.branches) + 1]

find_or_create_subject(branch_obj, subject_name) ==
    LET k == FindByName(branch_obj.subjects, subject_name) IN
    IF k # 0 THEN [obj |-> branch_obj, at |-> k]
    ELSE [obj |-> [branch_obj EXCEPT !.subjects = Append(@, [name |-> subject_name, resources |-> <<>>])],
          at |-> Len(branch_obj.subjects) + 1]

\* add_resource putting the resource in front of the Subject's resources
add_resource_front(m, year_name, branch_name, subject_name, resource) ==
    LET fy == find_or_create_year(m, year_name)
        fb == find_or_create_branch(fy.obj.years[fy.at], branch_name)
        fs == find_or_create_subject(fb.obj.branches[fb.at], subject_name)
        subject_obj == [fs.obj.subjects[fs.at] EXCEPT !.resources = <<resource>> \o @]
        branch_obj == [fs.obj EXCEPT !.subjects[fs.at] = subject_obj]
        year_obj == [fb.obj EXCEPT !.branches[fb.at] = branch_obj]
    IN [fy.obj EXCEPT !.years[fy.at] = year_obj]

\* add_resource(): the manifest after the three find-or-create calls and the append
\* (the caller stores it: save_manifest is the last statement of add_resource)
add_resource(m, year_name, branch_name, subject_name, resource) ==
    LET fy == find_or_create_year(m, year_name)
        fb == find_or_create_branch(fy.obj.years[fy.at], branch_name)
        fs == find_or_create_subject(fb.obj.branches[fb.at], subject_name)
        subject_obj == [fs.obj.subjects[fs.at] EXCEPT !.resources = Append(@, resource)]
        branch_obj == [fs.obj EXCEPT !.subjects[fs.at] = subject_obj]
        year_obj == [fb.obj EXCEPT !.branches[fb.at] = branch_obj]
    IN [fy.obj EXCEPT !.years[fy.at] = year_obj]

\* ------------------------------------------------------------------ flatten

\* dict.get(key): None when the key is missing
Get(r, key) == IF key \in DOMAIN r THEN r[key] ELSE None

RECURSIVE FlatMap(_, _, _)
\* the concatenation of f[s[1]], f[s[2]], ... : one nested for-loop of flatten_resources
FlatMap(s, k, f) ==
    IF k > Len(s) THEN <<>> ELSE f[k] \o FlatMap(s, k + 1, f)

FlatRecord(year, branch, subject, res) ==
    [year |-> year.name, branch |-> branch.name, subject |-> subject.name,
     title |-> Get(res, "title"), type |-> Get(res, "type"),
     url |-> Get(res, "url"), path |-> Get(res, "path")]

FlattenSubject(year, branch, subject) ==
    [l \in 1..Len(subject.resources) |-> FlatRecord(year, branch, subject, subject.resources[l])]

FlattenBranch(year, branch) ==
    FlatMap(branch.subjects, 1,
            [k \in 1..Len(branch.subjects) |-> FlattenSubject(year, branch, branch.subjects[k])])

FlattenYear(year) ==
    FlatMap(year.branches, 1,
            [j \in 1..Len(year.branches) |-> FlattenBranch(year, year.branches[j])])

flatten_resources(m) ==
    FlatMap(m.years, 1, [i \in 1..Len(m.years) |-> FlattenYear(m.years[i])])

\* ------------------------------------------------------------------ file vault

\* pathlib's folder / name and the f-string "{STATIC_DIR}/{safe_name}"
Join(folder, name) == folder \o <<"/">> \o name

\* the last position of character c in s (0: none): str.rfind
LastIndexOf(s, c) ==
    IF \E k \in 1..Len(s) : s[k] = c
    THEN CHOOSE k \in 1..Len(s) : s[k] = c /\ \A m \in (k + 1)..Len(s) : s[m] # c
    ELSE 0

\* os.path.splitext: the extension starts at the last dot, unless that dot is before
\* the last separator or only dots precede it in the file name
splitext(p) ==
    LET sepIndex == LastIndexOf(p, "/")
        dotIndex == LastIndexOf(p, ".")
    IN IF dotIndex > sepIndex /\ \E m \in (sepIndex + 1)..(dotIndex - 1) : p[m] # "."
       THEN [base |-> SubSeq(p, 1, dotIndex - 1), ext |-> SubSeq(p, dotIndex, Len(p))]
       ELSE [base |-> p, ext |-> <<>>]

Digit(d) == <<"0", "1", "2", "3", "4", "5", "6", "7", "8", "9">>[d + 1]

RECURSIVE Str(_)
\* str(n) of a natural number, as f"{counter}" formats it
Str(n) == IF n < 10 THEN <<Digit(n)>> ELSE Str(n \div 10) \o <<Digit(n % 10)>>

RECURSIVE UniqueLoop(_, _, _, _, _, _)
\* the while loop of unique_filename
UniqueLoop(fs, folder, base, ext, counter, candidate) ==
    IF Join(folder, candidate) \in fs
    THEN UniqueLoop(fs, folder, base, ext, counter + 1, base \o <<"_">> \o Str(counter) \o ext)
    ELSE candidate

\* unique_filename trying "_1" once, without looking again
unique_filename_once(fs, folder, name) ==
    LET sp == splitext(name) IN
    IF Join(folder, name) \in fs THEN sp.base \o <<"_", "1">> \o sp.ext ELSE name

\* unique_filename(folder, name), fs being the paths that exist
unique_filename(fs, folder, name) ==
    LET sp == splitext(name) IN
    UniqueLoop(fs, folder, sp.base, sp.ext, 1, sp.base \o sp.ext)

\* the file branch of the add form: the name chosen and the storage after the write
StoreUpload(fs, name) ==
    LET safe_name == unique_filename(fs, STATIC_DIR, name) IN
    [safe_name |-> safe_name, files |-> fs \cup {Join(STATIC_DIR, safe_name)}]

\* ------------------------------------------------------------------ display loop

\* lines 223-230: a link needs its url, anything else is opened from its path
Renders(fs, res) ==
    IF res.type = "link" THEN "url" \in DOMAIN res
    ELSE "path" \in DOMAIN res /\ res.path \in fs

SubjectRenders(fs, subject) ==
    \A l \in 1..Len(subject.resources) : Renders(fs, subject.resources[l])

BranchRenders(fs, branch) ==
    \A k \in 1..Len(branch.subjects) : SubjectRenders(fs, branch.subjects[k])

YearRenders(fs, year) ==
    \A j \in 1..Len(year.branches) : BranchRenders(fs, year.branches[j])

\* the script reaches the widgets of year i: all that is displayed before them was displayed
ReachesYear(m, fs, i) ==
    \A a \in 1..(i - 1) : YearRenders(fs, m.years[a])

ReachesBranch(m, fs, i, j) ==
    /\ ReachesYear(m, fs, i)
    /\ \A b \in 1..(j - 1) : BranchRenders(fs, m.years[i].branches[b])

ReachesSubject(m, fs, i, j, k) ==
    /\ ReachesBranch(m, fs, i, j)
    /\ \A c \in 1..(k - 1) : SubjectRenders(fs, m.years[i].branches[j].subjects[c])

ReachesResource(m, fs, i, j, k, l) ==
    /\ ReachesSubject(m, fs, i, j, k)
    /\ \A d \in 1..l : Renders(fs, m.years[i].branches[j].subjects[k].resources[d])

\* ------------------------------------------------------------------ inputs

NameInputs == {<<>>, <<"A">>, <<" ", "B", " ">>}

SubjectInputs == {<<>>, <<" ", "B", " ">>}

TitleInputs == {<<>>, <<"T">>}

UrlInputs == {<<>>, <<"u">>}

UploadInputs == {None, <<"a">>}

RenameInputs == {<<"A">>}

\* a selectbox offering the tag the creation branch tests for
ResTypes_file == {"link", "file"}

\* line 116: the options of the selectbox
ResTypes == {"link", "upload_file"}

\* lines 117-122: the URL field is shown for "link" only, the uploader otherwise
UrlField(res_type) == IF res_type = "link" THEN UrlInputs ELSE {<<>>}

UploadField(res_type) == IF res_type = "link" THEN {None} ELSE UploadInputs

\* ------------------------------------------------------------------ the add form

\* st.error(message): nothing is written
Rejected(m, fs, message) ==
    [outcome |-> "error", manifest |-> m, saved |-> FALSE, files |-> fs,
     shown |-> [op |-> "add", outcome |-> "error", message |-> message]]

\* line 147: add_resource with the stripped names, then st.success.  shown is history:
\* the names as typed (entered), the names passed on, the selected type, the Resource.
Added(m, fs, year_name, branch_name, subject_name, res_type, resource) ==
    [outcome |-> "added", saved |-> TRUE, files |-> fs,
     manifest |-> add_resource(m, Strip(year_name), Strip(branch_name),
                               Strip(subject_name), resource),
     shown |-> [op |-> "add", outcome |-> "added",
                entered |-> <<year_name, branch_name, subject_name>>,
                year |-> Strip(year_name), branch |-> Strip(branch_name),
                subject |-> Strip(subject_name),
                res_type |-> res_type, resource |-> resource]]

\* lines 125-148 on the loaded manifest m and storage fs: what the submission leaves
AddForm(m, fs, now, year_name, branch_name, subject_name, title, res_type, url_text, uploaded_file) ==
    LET url == IF res_type = "link" THEN url_text ELSE <<>> IN
    IF ~(Truthy(year_name) /\ Truthy(branch_name) /\ Truthy(subject_name) /\ Truthy(title))
    THEN Rejected(m, fs, "Please fill all required fields.")
    ELSE IF res_type = "link" /\ ~Truthy(url)
    THEN Rejected(m, fs, "Please provide a link URL.")
    ELSE IF res_type = "file"
    THEN IF uploaded_file = None
         THEN [outcome |-> "crash", manifest |-> m, saved |-> FALSE, files |-> fs,
               shown |-> [op |-> "add", outcome |-> "crash"]]
         ELSE LET st == StoreUpload(fs, uploaded_file)
                  resource == [title |-> title, type |-> "file",
                               path |-> Join(STATIC_DIR, st.safe_name),
                               meta |-> [added |-> now]]
              IN Added(m, st.files, year_name, branch_name, subject_name, res_type, resource)
    ELSE LET resource == [title |-> title, type |-> "link", url |-> url,
                          meta |-> [added |-> now]]
         IN Added(m, fs, year_name, branch_name, subject_name, res_type, resource)

SubmitAdd(year_name, branch_name, subject_name, title, res_type, url_text, uploaded_file) ==
    /\ clock < MaxAdds
    /\ LET m == load_manifest(disk)
           r == AddForm(m, files, clock + 1, year_name, branch_name, subject_name,
                        title, res_type, url_text, uploaded_file)
       IN /\ manifest' = r.manifest
          /\ disk' = IF r.saved THEN save_manifest(r.manifest) ELSE ensure_dirs(disk)
          /\ files' = r.files
          /\ clock' = IF r.outcome = "added" THEN clock + 1 ELSE clock
          /\ last' = r.shown
    /\ UNCHANGED <<mem, pc, stored>>

\* ------------------------------------------------------------------ rename, edit, delete

\* what a run leaves when the script stops before the widget that fired
Interrupted(op, m) ==
    /\ manifest' = m
    /\ disk' = ensure_dirs(disk)
    /\ files' = files
    /\ last' = [op |-> op, outcome |-> "crash"]

\* the stored files that the file Resources among the flattened records rs point to
BackingFiles(fs, rs) ==
    { rs[q].path : q \in { x \in 1..Len(rs) : rs[x].type = "file" } } \cap fs

\* what a run leaves when the handler ran: the manifest m2 is saved.  nested is
\* history only: the stored files of the Resources under the node that was deleted.
Handled(op, m, m2, fs2, nested) ==
    /\ manifest' = m2
    /\ disk' = save_manifest(m2)
    /\ files' = fs2
    /\ last' = [op |-> op, outcome |-> "done", nested |-> nested]

\* lines 178-183
RenameYear(i, edit_year) ==
    /\ LET m == load_manifest(disk) IN
       /\ i \in 1..Len(m.years)
       /\ edit_year # m.years[i].name
       /\ IF ReachesYear(m, files, i)
          THEN Handled("rename", m, [m EXCEPT !.years[i].name = edit_year], files, {})
          ELSE Interrupted("rename", m)
    /\ UNCHANGED <<clock, mem, pc, stored>>

\* lines 184-188
DeleteYear(i) ==
    /\ LET m == load_manifest(disk) IN
       /\ i \in 1..Len(m.years)
       /\ IF ReachesYear(m, files, i)
          THEN Handled("delete", m,
                       [m EXCEPT !.years = ListRemove(@, m.years[i])], files,
                       BackingFiles(files, FlattenYear(m.years[i])))
          ELSE Interrupted("delete", m)
    /\ UNCHANGED <<clock, mem, pc, stored>>

\* lines 194-199
RenameBranch(i, j, edit_branch) ==
    /\ LET m == load_manifest(disk) IN
       /\ i \in 1..Len(m.years)
       /\ j \in 1..Len(m.years[i].branches)
       /\ edit_branch # m.years[i].branches[j].name
       /\ IF ReachesBranch(m, files, i, j)
          THEN Handled("rename", m,
                       [m EXCEPT !.years[i].branches[j].name = edit_branch], files, {})
          ELSE Interrupted("rename", m)
    /\ UNCHANGED <<clock, mem, pc, stored>>

\* lines 200-204
DeleteBranch(i, j) ==
    /\ LET m == load_manifest(disk) IN
       /\ i \in 1..Len(m.years)
       /\ j \in 1..Len(m.years[i].branches)
       /\ IF ReachesBranch(m, files, i, j)
          THEN Handled("delete", m,
                       [m EXCEPT !.years[i].branches =
                            ListRemove(@, m.years[i].branches[j])], files,
                       BackingFiles(files, FlattenBranch(m.years[i], m.years[i].branches[j])))
          ELSE Interrupted("delete", m)
    /\ UNCHANGED <<clock, mem, pc, stored>>

\* lines 210-215
RenameSubject(i, j, k, edit_subject) ==
    /\ LET m == load_manifest(disk) IN
       /\ i \in 1..Len(m.years)
       /\ j \in 1..Len(m.years[i].branches)
       /\ k \in 1..Len(m.years[i].branches[j].subjects)
       /\ edit_subject # m.years[i].branches[j].subjects[k].name
       /\ IF ReachesSubject(m, files, i, j, k)
          THEN Handled("rename", m,
                       [m EXCEPT !.years[i].branches[j].subjects[k].name = edit_subject], files, {})
          ELSE Interrupted("rename", m)
    /\ UNCHANGED <<clock, mem, pc, stored>>

\* lines 216-220
DeleteSubject(i, j, k) ==
    /\ LET m == load_manifest(disk) IN
       /\ i \in 1..Len(m.years)
       /\ j \in 1..Len(m.years[i].branches)
       /\ k \in 1..Len(m.years[i].branches[j].subjects)
       /\ IF ReachesSubject(m, files, i, j, k)
          THEN Handled("delete", m,
                       [m EXCEPT !.years[i].branches[j].subjects =
                            ListRemove(@, m.years[i].branches[j].subjects[k])], files,
                       BackingFiles(files, FlattenSubject(m.years[i], m.years[i].branches[j],
                                                          m.years[i].branches[j].subjects[k])))
          ELSE Interrupted("delete", m)
    /\ UNCHANGED <<clock, mem, pc, stored>>

\* lines 240-241: os.path.exists(res.get("path", "")) guards os.remove
RemoveBackingFile(fs, res) ==
    IF res.type = "file" /\ (IF "path" \in DOMAIN res THEN res.path ELSE <<>>) \in fs
    THEN fs \ {res.path}
    ELSE fs

\* lines 239-245
DeleteResource(i, j, k, l) ==
    /\ LET m == load_manifest(disk) IN
       /\ i \in 1..Len(m.years)
       /\ j \in 1..Len(m.years[i].branches)
       /\ k \in 1..Len(m.years[i].branches[j].subjects)
       /\ l \in 1..Len(m.years[i].branches[j].subjects[k].resources)
       /\ LET res == m.years[i].branches[j].subjects[k].resources[l] IN
          IF ReachesResource(m, files, i, j, k, l)
          THEN Handled("delete", m,
                       [m EXCEPT !.years[i].branches[j].subjects[k].resources =
                            ListRemove(@, res)],
                       RemoveBackingFile(files, res), {})
          ELSE Interrupted("delete", m)
    /\ UNCHANGED <<clock, mem, pc, stored>>

\* ------------------------------------------------------------------ one session, from nothing

\* the positions the display loop walks through, in the stored document
YearPos == 1..Len(load_manifest(disk).years)

BranchPos(i) == 1..Len(load_manifest(disk).years[i].branches)

SubjectPos(i, j) == 1..Len(load_manifest(disk).years[i].branches[j].subjects)

ResourcePos(i, j, k) == 1..Len(load_manifest(disk).years[i].branches[j].subjects[k].resources)

NoOp == [op |-> "none", outcome |-> "none"]

\* the first run of the script: no document yet, an empty "static" folder
Init ==
    /\ disk = ensure_dirs(Absent)
    /\ manifest = load_manifest(Absent)
    /\ files = {}
    /\ clock = 0
    /\ last = NoOp
    /\ mem = <<>>
    /\ pc = <<>>
    /\ stored = <<>>

Next ==
    \/ \E y \in NameInputs, b \in NameInputs, s \in SubjectInputs, t \in TitleInputs,
          ty \in ResTypes :
          \E u \in UrlField(ty), f \in UploadField(ty) : SubmitAdd(y, b, s, t, ty, u, f)
    \/ \E i \in YearPos, n \in RenameInputs : RenameYear(i, n)
    \/ \E i \in YearPos : DeleteYear(i)
    \/ \E i \in YearPos : \E j \in BranchPos(i), n \in RenameInputs : RenameBranch(i, j, n)
    \/ \E i \in YearPos : \E j \in BranchPos(i) : DeleteBranch(i, j)
    \/ \E i \in YearPos : \E j \in BranchPos(i) : \E k \in SubjectPos(i, j), n \in RenameInputs :
          RenameSubject(i, j, k, n)
    \/ \E i \in YearPos : \E j \in BranchPos(i) : \E k \in SubjectPos(i, j) :
          DeleteSubject(i, j, k)
    \/ \E i \in YearPos : \E j \in BranchPos(i) : \E k \in SubjectPos(i, j) :
          \E l \in ResourcePos(i, j, k) : DeleteResource(i, j, k, l)

Spec == Init /\ [][Next]_vars

\* ------------------------------------------------------------------ a stored catalogue

\* Number of Years in the stored documents the vault specification starts from.
MaxSeedYears == 2

SeqsUpTo(S, n) == UNION {[1..k -> S] : k \in 0..n}

\* the path of the upload kept for the i-th Year: each upload got a name of its own
SeedPath(i) == Join(STATIC_DIR, <<"a", "_">> \o Str(i))

\* Resources as lines 139-146 write them; "added" differs from Resource to Resource
SeedLink(i) ==
    [title |-> <<"T">>, type |-> "link", url |-> <<"u">>, meta |-> [added |-> 2 * i]]

SeedFile(i) ==
    [title |-> <<"T">>, type |-> "file", path |-> SeedPath(i), meta |-> [added |-> 2 * i + 1]]

\* the Years a stored document may hold at place i: an empty Year, a Year of emptied
\* Branches of which two were renamed to the same name, a Year with a file, a Year
\* with a link and a file and a second Branch
SeedYears(i) ==
    { [name |-> <<"A">>, branches |-> <<>>],
      [name |-> <<"A">>, branches |-> << [name |-> <<"A">>, subjects |-> <<>>],
                                         [name |-> <<"B">>, subjects |-> <<>>],
                                         [name |-> <<"A">>, subjects |-> <<>>] >>],
      [name |-> <<"A">>, branches |->
          << [name |-> <<"A">>, subjects |->
                << [name |-> <<"A">>, resources |-> <<SeedFile(i)>>] >>] >>],
      [name |-> <<"B">>, branches |->
          << [name |-> <<"A">>, subjects |->
                << [name |-> <<"A">>, resources |-> <<SeedLink(i), SeedFile(i)>>] >>],
             [name |-> <<"B">>, subjects |->
                << [name |-> <<"A">>, resources |-> <<>>] >>] >>] }

SeedManifests ==
    { [years |-> ys] :
        ys \in { q \in SeqsUpTo(UNION { SeedYears(i) : i \in 1..MaxSeedYears }, MaxSeedYears) :
                   \A i \in 1..Len(q) : q[i] \in SeedYears(i) } }

\* the "static" folder: every upload still there, or the folder emptied by hand
SeedFiles == { {}, { SeedPath(i) : i \in 1..MaxSeedYears } }

\* the script starts on a manifest.json and a "static" folder left by earlier use
InitVault ==
    /\ disk \in SeedManifests
    /\ manifest = load_manifest(disk)
    /\ files \in SeedFiles
    /\ clock = 0
    /\ last = NoOp
    /\ mem = <<>>
    /\ pc = <<>>
    /\ stored = <<>>

NextVault ==
    \/ \E i \in YearPos : DeleteYear(i)
    \/ \E i \in YearPos : \E j \in BranchPos(i) : DeleteBranch(i, j)
    \/ \E i \in YearPos : \E j \in BranchPos(i) : \E k \in SubjectPos(i, j) :
          DeleteSubject(i, j, k)
    \/ \E i \in YearPos : \E j \in BranchPos(i) : \E k \in SubjectPos(i, j) :
          \E l \in ResourcePos(i, j, k) : DeleteResource(i, j, k, l)

SpecVault == InitVault /\ [][NextVault]_vars

\* ------------------------------------------------------------------ storing uploads

\* Number of uploads stored in one behaviour.
MaxStores == 3

UploadNames == {<<"a">>, <<"a", ".", "t">>, <<"a", "_", "1">>, <<".", "a">>}

StoreSeedPaths ==
    { Join(STATIC_DIR, n) :
        n \in {<<"a">>, <<"a", "_", "1">>, <<"a", ".", "t">>, <<"a", "_", "1", ".", "t">>} }

InitStore ==
    /\ files \in SUBSET StoreSeedPaths
    /\ stored = <<>>
    /\ disk = ensure_dirs(Absent)
    /\ manifest = load_manifest(Absent)
    /\ clock = 0
    /\ last = NoOp
    /\ mem = <<>>
    /\ pc = <<>>

\* lines 134-138: choose the name, write the bytes under it
StoreFile(name) ==
    /\ Len(stored) < MaxStores
    /\ LET st == StoreUpload(files, name) IN
       /\ files' = st.files
       /\ stored' = Append(stored, [name |-> name, safe_name |-> st.safe_name, before |-> files])
    /\ UNCHANGED <<manifest, disk, clock, last, mem, pc>>

NextStore == \E name \in UploadNames : StoreFile(name)

SpecStore == InitStore /\ [][NextStore]_vars

\* ------------------------------------------------------------------ two sessions

Sessions == {1, 2}

\* the resources of a document
ResourcesOf(m) ==
    UNION { UNION { UNION {
        { m.years[i].branches[j].subjects[k].resources[l] :
            l \in 1..Len(m.years[i].branches[j].subjects[k].resources) } :
          k \in 1..Len(m.years[i].branches[j].subjects) } :
        j \in 1..Len(m.years[i].branches) } :
      i \in 1..Len(m.years) }

\* Each session runs the script on its own: "start" -> load_manifest (line 91) ->
\* the in-memory part of add_resource (lines 65-68) -> save_manifest (line 69).
\* last.mine[s] is the resource session s appended, last.missed[s] the resources
\* other sessions saved after s loaded, last.order the sessions in saving order.
InitRace ==
    /\ disk = ensure_dirs(Absent)
    /\ mem = [s \in Sessions |-> Absent]
    /\ pc = [s \in Sessions |-> "start"]
    /\ clock = 0
    /\ last = [op |-> "race", mine |-> [s \in Sessions |-> None],
               missed |-> [s \in Sessions |-> {}], order |-> <<>>]
    /\ manifest = load_manifest(Absent)
    /\ files = {}
    /\ stored = <<>>

\* line 91, in session s
SessionLoad(s) ==
    /\ pc[s] = "start"
    /\ clock < MaxAdds
    /\ mem' = [mem EXCEPT ![s] = load_manifest(disk)]
    /\ disk' = ensure_dirs(disk)
    /\ pc' = [pc EXCEPT ![s] = "loaded"]
    /\ last' = [last EXCEPT !.mine[s] = None, !.missed[s] = {}]
    /\ UNCHANGED <<manifest, files, clock, stored>>

\* lines 146 and 65-68, in session s: a valid link submission, appended in memory
SessionMutate(s, year_name, branch_name, subject_name) ==
    /\ pc[s] = "loaded"
    /\ clock < MaxAdds
    /\ LET resource == [title |-> <<"T">>, type |-> "link", url |-> <<"u">>,
                        meta |-> [added |-> clock + 1]]
       IN /\ mem' = [mem EXCEPT ![s] = add_resource(mem[s], Strip(year_name),
                                                    Strip(branch_name), Strip(subject_name),
                                                    resource)]
          /\ last' = [last EXCEPT !.mine[s] = resource]
    /\ clock' = clock + 1
    /\ pc' = [pc EXCEPT ![s] = "mutated"]
    /\ UNCHANGED <<manifest, disk, files, stored>>

\* a save that keeps the stored document when it changed since session s loaded
SessionWrite_checked(s) == IF last.missed[s] = {} THEN save_manifest(mem[s]) ELSE disk

\* what session s leaves in manifest.json: save_manifest of its own copy
SessionWrite(s) == save_manifest(mem[s])

\* line 69, in session s
SessionSave(s) ==
    /\ pc[s] = "mutated"
    /\ disk' = SessionWrite(s)
    /\ pc' = [pc EXCEPT ![s] = "done"]
    /\ last' = [last EXCEPT
                  !.order = Append(@, s),
                  !.missed = [t \in Sessions |->
                                IF t # s /\ pc[t] \in {"loaded", "mutated"}
                                THEN @[t] \cup {last.mine[s]} ELSE @[t]]]
    /\ UNCHANGED <<manifest, mem, files, clock, stored>>

\* the next user event in session s runs the script again
SessionRerun(s) ==
    /\ pc[s] = "done"
    /\ clock < MaxAdds
    /\ pc' = [pc EXCEPT ![s] = "start"]
    /\ UNCHANGED <<manifest, disk, mem, files, clock, last, stored>>

NextRace ==
    \/ \E s \in Sessions : SessionLoad(s)
    \/ \E s \in Sessions, y \in NameInputs \ {<<>>}, b \in NameInputs \ {<<>>} :
          SessionMutate(s, y, b, <<"A">>)
    \/ \E s \in Sessions : SessionSave(s)
    \/ \E s \in Sessions : SessionRerun(s)

SpecRace == InitRace /\ [][NextRace]_vars

\* ================================================================== properties

\* helpers of the properties, written apart from the operators modelling the code

NamedPositions(s, n) == { k \in 1..Len(s) : s[k].name = n }

FirstNamed(s, n) ==
    CHOOSE k \in NamedPositions(s, n) : \A m \in NamedPositions(s, n) : k <= m

WithoutPosition(s, i) == [k \in 1..(Len(s) - 1) |-> IF k < i THEN s[k] ELSE s[k + 1]]

\* post is pre with at most one node more, at the end; at marks the node the add went
\* through, the only one whose content may differ
GrownAt(pre, post, at, existed) ==
    IF existed
    THEN /\ Len(post) = Len(pre)
         /\ \A a \in 1..Len(pre) : a # at => post[a] = pre[a]
         /\ post[at].name = pre[at].name
    ELSE /\ Len(post) = Len(pre) + 1
         /\ at = Len(post)
         /\ \A a \in 1..Len(pre) : post[a] = pre[a]

\* the effect of add_resource(pre, y, b, s, r), level by level
AddPost(pre, post, y, b, s, r) ==
    /\ NamedPositions(post.years, y) # {}
    /\ LET iy == FirstNamed(post.years, y)
           yearWas == NamedPositions(pre.years, y) # {}
           preB == IF yearWas THEN pre.years[iy].branches ELSE <<>>
           postB == post.years[iy].branches
       IN /\ GrownAt(pre.years, post.years, iy, yearWas)
          /\ yearWas => iy = FirstNamed(pre.years, y)
          /\ NamedPositions(postB, b) # {}
          /\ LET ib == FirstNamed(postB, b)
                 branchWas == NamedPositions(preB, b) # {}
                 preS == IF branchWas THEN preB[ib].subjects ELSE <<>>
                 postS == postB[ib].subjects
             IN /\ GrownAt(preB, postB, ib, branchWas)
                /\ branchWas => ib = FirstNamed(preB, b)
                /\ NamedPositions(postS, s) # {}
                /\ LET is == FirstNamed(postS, s)
                       subjectWas == NamedPositions(preS, s) # {}
                       preR == IF subjectWas THEN preS[is].resources ELSE <<>>
                   IN /\ GrownAt(preS, postS, is, subjectWas)
                      /\ subjectWas => is = FirstNamed(preS, s)
                      /\ postS[is].resources = Append(preR, r)
    /\ pre = EmptyManifest =>
         post = [years |-> << [name |-> y, branches |->
                    << [name |-> b, subjects |->
                          << [name |-> s, resources |-> <<r>>] >>] >>] >>]

UniqueNames(s) == \A a \in 1..Len(s), b \in 1..Len(s) : s[a].name = s[b].name => a = b

\* C2: in every state reached from the empty manifest by add, rename and delete, no
\* two Years of the manifest, no two Branches of one Year and no two Subjects of one
\* Branch have the same name.
C2_SiblingNamesUnique ==
    /\ UniqueNames(manifest.years)
    /\ \A i \in 1..Len(manifest.years) :
         /\ UniqueNames(manifest.years[i].branches)
         /\ \A j \in 1..Len(manifest.years[i].branches) :
              UniqueNames(manifest.years[i].branches[j].subjects)

CheckedNames == {<<"A">>, <<"B">>, <<"C">>}

\* on a parent with at most one child named n, repeated find-or-create calls leave one
\* child named n, return the same child, and change nothing after the first call
Idempotent(children, n, first, second, third, kids(_)) ==
    Cardinality(NamedPositions(children, n)) <= 1 =>
        /\ Cardinality(NamedPositions(kids(first.obj), n)) = 1
        /\ kids(first.obj)[first.at].name = n
        /\ second = first
        /\ third = first
        /\ NamedPositions(children, n) # {} => kids(first.obj) = children

YearsOf(m) == m.years

BranchesOf(y) == y.branches

SubjectsOf(b) == b.subjects

\* C3: find-or-create is idempotent at each level: on a parent holding at most one
\* child named n, any number of find_or_create calls with n leaves exactly one child
\* named n, every call returns that child, and every call after the first leaves the
\* tree as it is.
C3_FindOrCreateIdempotent ==
    \A n \in CheckedNames :
       /\ LET f1 == find_or_create_year(manifest, n)
              f2 == find_or_create_year(f1.obj, n)
              f3 == find_or_create_year(f2.obj, n)
          IN Idempotent(manifest.years, n, f1, f2, f3, YearsOf)
       /\ \A i \in 1..Len(manifest.years) :
            LET y == manifest.years[i]
                f1 == find_or_create_branch(y, n)
                f2 == find_or_create_branch(f1.obj, n)
                f3 == find_or_create_branch(f2.obj, n)
            IN /\ Idempotent(y.branches, n, f1, f2, f3, BranchesOf)
               /\ \A j \in 1..Len(y.branches) :
                    LET b == y.branches[j]
                        g1 == find_or_create_subject(b, n)
                        g2 == find_or_create_subject(g1.obj, n)
                        g3 == find_or_create_subject(g2.obj, n)
                    IN Idempotent(b.subjects, n, g1, g2, g3, SubjectsOf)

\* an add went through a Year, a Branch and a Subject that were found, not created:
\* the Subject holds two resources, and other names are still absent
C3_Witness ==
    /\ last.op = "add"
    /\ last.outcome = "added"
    /\ Len(manifest.years) = 1
    /\ Len(manifest.years[1].branches) = 1
    /\ Len(manifest.years[1].branches[1].subjects) = 1
    /\ Len(manifest.years[1].branches[1].subjects[1].resources) = 2

\* ---- deletes

Range(s) == { s[k] : k \in 1..Len(s) }

Occurrences(s, v) == Cardinality({ k \in 1..Len(s) : s[k] = v })

\* post is pre with one occurrence of x less and nothing else changed in number
OneFewer(pre, post, x) ==
    /\ Len(post) = Len(pre) - 1
    /\ \A v \in Range(pre) :
         Occurrences(post, v) = Occurrences(pre, v) - (IF v = x THEN 1 ELSE 0)

\* C4: a delete removes the node it was invoked for, by identity: the element at the
\* node's position i leaves its parent's sequence and all other siblings stay, in
\* their order, also when another sibling has the same name or the same content.
C4_DeleteRemovesSelected ==
    [][ (last'.op = "delete" /\ last'.outcome = "done") =>
          /\ \A i \in YearPos : DeleteYear(i) =>
               manifest' = [disk EXCEPT !.years = WithoutPosition(@, i)]
          /\ \A i \in YearPos : \A j \in BranchPos(i) : DeleteBranch(i, j) =>
               manifest' = [disk EXCEPT !.years[i].branches = WithoutPosition(@, j)]
          /\ \A i \in YearPos : \A j \in BranchPos(i) : \A k \in SubjectPos(i, j) :
               DeleteSubject(i, j, k) =>
                 manifest' = [disk EXCEPT !.years[i].branches[j].subjects =
                                              WithoutPosition(@, k)]
          /\ \A i \in YearPos : \A j \in BranchPos(i) : \A k \in SubjectPos(i, j) :
               \A l \in ResourcePos(i, j, k) : DeleteResource(i, j, k, l) =>
                 manifest' = [disk EXCEPT !.years[i].branches[j].subjects[k].resources =
                                              WithoutPosition(@, l)] ]_vars

\* C5: deleting a file Resource removes its backing file (a file already absent is
\* no error: the delete still goes through) and removes the entry from its Subject;
\* deleting a link Resource leaves the stored files as they are.
C5_DeleteResourceAndFile ==
    [][ last'.op = "delete" =>
          \A i \in YearPos : \A j \in BranchPos(i) : \A k \in SubjectPos(i, j) :
            \A l \in ResourcePos(i, j, k) : DeleteResource(i, j, k, l) =>
              LET pre == disk.years[i].branches[j].subjects[k].resources
                  post == manifest'.years[i].branches[j].subjects[k].resources
                  res == pre[l]
              IN /\ res.type = "file" =>
                      /\ last'.outcome = "done"
                      /\ OneFewer(pre, post, res)
                      /\ disk' = manifest'
                      /\ files' = IF "path" \in DOMAIN res THEN files \ {res.path} ELSE files
                 /\ res.type = "link" => files' = files ]_vars

\* C6: deleting a Year, a Branch or a Subject cascades in the tree and not in the
\* storage: flatten then holds no record of what was under the deleted node, the
\* records of all other nodes are as before and in the same order, and the stored
\* files are unchanged.
C6_CascadeKeepsFiles ==
    [][ (last'.op = "delete" /\ last'.outcome = "done") =>
          /\ \A i \in YearPos : DeleteYear(i) =>
               /\ flatten_resources(manifest') =
                    flatten_resources([disk EXCEPT !.years = WithoutPosition(@, i)])
               /\ files' = files
          /\ \A i \in YearPos : \A j \in BranchPos(i) : DeleteBranch(i, j) =>
               /\ flatten_resources(manifest') =
                    flatten_resources([disk EXCEPT !.years[i].branches = WithoutPosition(@, j)])
               /\ files' = files
          /\ \A i \in YearPos : \A j \in BranchPos(i) : \A k \in SubjectPos(i, j) :
               DeleteSubject(i, j, k) =>
                 /\ flatten_resources(manifest') =
                      flatten_resources([disk EXCEPT !.years[i].branches[j].subjects =
                                                         WithoutPosition(@, k)])
                 /\ files' = files ]_vars

\* a node holding a file Resource was deleted by cascade: flatten has no record of the
\* Resource and its file is still stored
C6_Witness ==
    /\ last.op = "delete"
    /\ last.outcome = "done"
    /\ last.nested # {}
    /\ last.nested \subseteq files
    /\ \A q \in 1..Len(flatten_resources(manifest)) :
         flatten_resources(manifest)[q].path \notin last.nested

\* ---- uploads

\* C7: unique_filename never returns a name that exists in the folder, whatever the
\* folder holds; and N stores in a row of the same requested name, each written under
\* the name returned, get N different names: no store overwrites a file.
C7_UniqueFilenameFresh ==
    /\ \A name \in UploadNames :
         Join(STATIC_DIR, unique_filename(files, STATIC_DIR, name)) \notin files
    /\ \A p \in 1..Len(stored) :
         /\ Join(STATIC_DIR, stored[p].safe_name) \notin stored[p].before
         /\ stored[p].before \subseteq files
         /\ \A q \in 1..Len(stored) :
              (p < q /\ stored[p].name = stored[q].name) =>
                 stored[p].safe_name # stored[q].safe_name

\* three stores of "a" in a folder that held static/a and static/a_1 already
C7_Witness ==
    /\ Len(stored) = 3
    /\ \A p \in 1..3 : stored[p].name = <<"a">>
    /\ {Join(STATIC_DIR, <<"a">>), Join(STATIC_DIR, <<"a", "_", "1">>)} \subseteq stored[1].before

\* ---- the add form

InvalidForm(y, b, s, t, ty, u) ==
    y = <<>> \/ b = <<>> \/ s = <<>> \/ t = <<>> \/ (ty = "link" /\ u = <<>>)

\* C8: a submitted add form in which year, branch, subject or title is empty, or the
\* type is link and the URL is empty, is rejected with an error and nothing is
\* written: manifest in memory, stored document and stored files stay as they were.
\* Every submission ends in the error or in the success message; the property asks
\* that no invalid form ends in success and that the error leaves everything as it was.
C8_InvalidFormRejected ==
    [][ last'.op = "add" =>
          /\ last'.outcome \in {"error", "added"}
          /\ last'.outcome = "added" =>
                ~InvalidForm(last'.entered[1], last'.entered[2], last'.entered[3],
                             last'.resource.title, last'.res_type, Get(last'.resource, "url"))
          /\ last'.outcome = "error" =>
                /\ manifest' = manifest
                /\ disk' = disk
                /\ files' = files ]_vars

\* a link submission without URL was rejected while the catalogue held a resource
C8_Witness ==
    /\ last.op = "add"
    /\ last.outcome = "error"
    /\ last.message = "Please provide a link URL."
    /\ manifest.years # <<>>

NoFileResource(m) == \A r \in ResourcesOf(m) : r.type # "file"

\* C10: the form offers "link" and "upload_file" and the creation tests for "file":
\* in every state reached from the empty manifest and empty storage no Resource of
\* type file exists and no file was written; a valid "upload_file" submission appends
\* a Resource of type link whose url is the empty string.
C10_UploadBecomesEmptyLink ==
    /\ NoFileResource(manifest)
    /\ NoFileResource(disk)
    /\ files = {}
    /\ \A y \in NameInputs, b \in NameInputs, s \in SubjectInputs, t \in TitleInputs,
          f \in UploadField("upload_file") :
         ~InvalidForm(y, b, s, t, "upload_file", <<>>) =>
            AddForm(disk, files, clock + 1, y, b, s, t, "upload_file", <<>>, f).outcome = "added"
    /\ (last.op = "add" /\ last.outcome = "added" /\ last.res_type = "upload_file") =>
         /\ last.resource.type = "link"
         /\ last.resource.url = <<>>
         /\ "path" \notin DOMAIN last.resource
         /\ last.resource \in ResourcesOf(manifest)

\* an "upload_file" submission was accepted
C10_Witness ==
    /\ last.op = "add"
    /\ last.outcome = "added"
    /\ last.res_type = "upload_file"

\* ---- two sessions

LastWriter == last.order[Len(last.order)]

\* C9: two sessions that each load, mutate and save race with last-writer-wins: when
\* a session saves after another session saved behind its load, the stored document
\* is exactly the one this last writer held and holds none of the resources the other
\* session had saved: the update is lost, and nothing refuses or merges the write.
C9_LastWriterWins ==
    \A t \in Sessions :
       (last.order # <<>> /\ LastWriter = t /\ pc[t] = "done") =>
          /\ disk = mem[t]
          /\ \A r \in last.missed[t] : r \notin ResourcesOf(disk)

\* both sessions loaded before either saved, and both have saved
C9_Witness ==
    /\ Len(last.order) = 2
    /\ last.order[1] # last.order[2]
    /\ pc = [s \in Sessions |-> "done"]
    /\ last.missed[LastWriter] = {last.mine[last.order[1]]}
    /\ last.mine[last.order[1]] \notin ResourcesOf(disk)

====
